---- MODULE Spec2Model ----
(***************************************************************************)
(* Model of the classification planner (services/planner/agent_langgraph)  *)
(* and of the verifier it calls (services/verifier).  One request is       *)
(* threaded through the LangGraph workflow; pc names the node that runs    *)
(* next.  Confidences are per-mille integers (0.75 is 750).                *)
(***************************************************************************)
EXTENDS Integers, Sequences, FiniteSets, TLC

\* ------------------------------------------------------------------ bounds
\* largest catalog the discovery service returns
MaxCatalog == 3
\* longest id list the selection LLM returns
MaxIds == 1
\* the count of dispatch rounds saturates here
MaxRounds == 4
\* longest id list the selection LLM returns when selection is run on its own
MaxRanked == 3
\* longest result list handed to the verifier's components on their own
MaxResults == 3
\* longest list of performed tests handed to the aggregation on its own
MaxTests == 3

\* ------------------------------------------------------- program constants
MAX_REPLANS == 3
pass_threshold == 750
uncertain_threshold == 600
agreement_threshold == 670
Scale == 1000
ensemble_min_confidence == 850
ensemble_pool == 3
ensemble_limit == 3
enable_ensemble_voting == FALSE

\* ------------------------------------------------------------ environment
AgentIds == <<"a1", "a2", "a3", "a4", "a5">>
UnknownId == "zz"
RequestId == "req"

\* catalogs the discovery service can return: ranked, without repetition
Catalogs == {SubSeq(AgentIds, 1, n) : n \in 0..MaxCatalog}

\* id lists the selection LLM can return (unknown and repeated ids included)
IdUniverse == {AgentIds[i] : i \in 1..MaxCatalog} \cup {UnknownId}
IdLists == UNION {[1..n -> IdUniverse] : n \in 0..MaxIds}

Prompts == {"xray of a chest", "a photo"}
MinConfidences == {750, 900}

\* response texts an agent can send back with status success.  A text
\* response may carry a "Label:" line and a "Confidence:" line; a JSON
\* response carries its own request_id and agent_id.
TextResponse(raw, l, c) ==
    [shape |-> "text", raw |-> raw, has_label |-> TRUE, label |-> l,
     has_confidence |-> TRUE, confidence |-> c, valid |-> TRUE,
     data_request_id |-> "", data_agent_id |-> ""]
JsonResponse(raw, l, c, rid, aid) ==
    [shape |-> "json", raw |-> raw, has_label |-> TRUE, label |-> l,
     has_confidence |-> TRUE, confidence |-> c, valid |-> TRUE,
     data_request_id |-> rid, data_agent_id |-> aid]
Responses ==
    { TextResponse("Label: cat / Confidence: 0.8", "cat", 800),
      TextResponse("Label: cat / Confidence: 0.65", "cat", 650),
      JsonResponse("{label: dog, confidence: 0.5}", "dog", 500, RequestId, "a1") }

\* what one call of send_message_to_agent can end in
CallOutcomes ==
    {[status |-> "raise"], [status |-> "error"]}
    \cup {[status |-> "success", response |-> r] : r \in Responses}

\* further response texts: a stated confidence of 0, a text in neither
\* format, stated confidences outside [0, 1], and JSON that does not load
MalformedText(raw) ==
    [shape |-> "text", raw |-> raw, has_label |-> FALSE, label |-> "",
     has_confidence |-> FALSE, confidence |-> 0, valid |-> TRUE,
     data_request_id |-> "", data_agent_id |-> ""]
BrokenJson(raw) ==
    [shape |-> "json", raw |-> raw, has_label |-> FALSE, label |-> "",
     has_confidence |-> FALSE, confidence |-> 0, valid |-> FALSE,
     data_request_id |-> "", data_agent_id |-> ""]
WideResponses ==
    Responses \cup
    { TextResponse("Label: cat / Confidence: 0.0", "cat", 0),
      MalformedText("not a valid response"),
      TextResponse("Label: cat / Confidence: 1.5", "cat", 1500),
      JsonResponse("{label: dog, confidence: -0.2}", "dog", 0 - 200, RequestId, "a1"),
      BrokenJson("{label: dog") }

\* a call may also never return: send_message_to_agent awaits
\* client.send_message without a timeout of its own
WideCallOutcomes ==
    {[status |-> "raise"], [status |-> "error"], [status |-> "never"]}
    \cup {[status |-> "success", response |-> r] : r \in WideResponses}

\* what the reflection LLM can return: a ShouldContinue value, or nothing
\* usable ("raise": an exception or a response without should_continue).
\* The reason text matters only when a mismatch is flagged.
JudgeOutputs ==
    [kind : {"ok"}, should_continue : BOOLEAN, mismatch_detected : {TRUE},
     reason : {"", "image is not medical"}]
    \cup [kind : {"ok"}, should_continue : BOOLEAN, mismatch_detected : {FALSE},
          reason : {"results are fine"}]
    \cup {[kind |-> "raise"]}

NoJudge == [kind |-> "none"]
NoReport == [status |-> "N/A", recommendation |-> "N/A", tests |-> <<>>]
NoRoute == [strategy |-> "none", selected_agents |-> <<>>]
NoResponse == [status |-> ""]

\* ---------------------------------------------------------------- helpers
Min2(a, b) == IF a < b THEN a ELSE b

RECURSIVE MaxConfidence(_)
MaxConfidence(rs) ==
    IF rs = <<>> THEN 0
    ELSE LET m == MaxConfidence(Tail(rs))
         IN  IF Head(rs).confidence >= m THEN Head(rs).confidence ELSE m

\* ------------------------------------------------- response parsing
Result(rid, aid, l, c) ==
    [request_id |-> rid, agent_id |-> aid, label |-> l, confidence |-> c]

ValidConfidence_no_upper(c) == c >= 0

\* ClassificationResult validates 0 <= confidence <= 1
ValidConfidence(c) == c >= 0 /\ c <= Scale

ParseError(agent_id) == Result("uuid", agent_id, "parse_error", 0)

parse_classification_result(response, agent_id) ==
    IF response.shape = "json"
    THEN IF response.valid /\ ValidConfidence(response.confidence)
         THEN Result(response.data_request_id, response.data_agent_id,
                     response.label, response.confidence)
         ELSE ParseError(agent_id)
    ELSE LET label == IF response.has_label THEN response.label ELSE response.raw
             confidence == IF response.has_confidence THEN response.confidence ELSE 800
         IN  IF ValidConfidence(confidence)
             THEN Result("uuid", agent_id, label, confidence)
             ELSE ParseError(agent_id)

\* ------------------------------------------------------------- verifier
Test(name, res, rec) == [test_name |-> name, result |-> res, recommendation |-> rec]

ConfidenceGate_verify_strict(result) ==
    IF result.confidence > pass_threshold
    THEN Test("confidence_threshold", "pass", "accept")
    ELSE IF result.confidence > uncertain_threshold
    THEN Test("confidence_threshold", "fail", "replan_ensemble")
    ELSE Test("confidence_threshold", "fail", "human_review")

ConfidenceGate_verify(result) ==
    IF result.confidence >= pass_threshold
    THEN Test("confidence_threshold", "pass", "accept")
    ELSE IF result.confidence >= uncertain_threshold
    THEN Test("confidence_threshold", "fail", "replan_ensemble")
    ELSE Test("confidence_threshold", "fail", "human_review")

\* keys of label_votes in insertion order
RECURSIVE LabelKeys(_)
LabelKeys(rs) ==
    IF rs = <<>> THEN <<>>
    ELSE LET init == LabelKeys(SubSeq(rs, 1, Len(rs) - 1))
             l == rs[Len(rs)].label
         IN  IF \E i \in 1..Len(init) : init[i] = l THEN init ELSE Append(init, l)

LabelVotes(rs, l) == Cardinality({i \in 1..Len(rs) : rs[i].label = l})

MaxVotes_first(rs) == LabelVotes(rs, rs[1].label)

\* max(label_votes.values())
MaxVotes(rs) ==
    CHOOSE m \in 0..Len(rs) :
        /\ \E i \in 1..Len(rs) : LabelVotes(rs, rs[i].label) = m
        /\ \A i \in 1..Len(rs) : LabelVotes(rs, rs[i].label) <= m

MajorityLabel_last(rs) ==
    LET keys == LabelKeys(rs)
        k == CHOOSE i \in 1..Len(keys) :
                 /\ LabelVotes(rs, keys[i]) = MaxVotes(rs)
                 /\ \A j \in (i + 1)..Len(keys) : LabelVotes(rs, keys[j]) < MaxVotes(rs)
    IN  keys[k]

\* max(label_votes, key=label_votes.get): the first key with the most votes
MajorityLabel(rs) ==
    LET keys == LabelKeys(rs)
        k == CHOOSE i \in 1..Len(keys) :
                 /\ LabelVotes(rs, keys[i]) = MaxVotes(rs)
                 /\ \A j \in 1..(i - 1) : LabelVotes(rs, keys[j]) < MaxVotes(rs)
    IN  keys[k]

RECURSIVE SumConfidence(_, _)
SumConfidence(rs, l) ==
    IF rs = <<>> THEN 0
    ELSE (IF Head(rs).label = l THEN Head(rs).confidence ELSE 0)
         + SumConfidence(Tail(rs), l)

\* mean confidence of the results carrying label l, rounded down to 1/1000
AvgConfidence(rs, l) == SumConfidence(rs, l) \div LabelVotes(rs, l)

EnsembleVoter_verify(rs) ==
    IF Len(rs) < 2
    THEN Test("ensemble_voting", "skip", "none")
    ELSE IF MaxVotes(rs) * Scale >= agreement_threshold * Len(rs)
    THEN Test("ensemble_voting", "pass", "accept")
    ELSE Test("ensemble_voting", "fail", "human_review")

\* the DisagreementAnalysis EnsembleVoter.verify returns with its test, and
\* the majority label it computes; agreement_rate is max_votes / total_votes
NoAnalysis ==
    [max_votes |-> 0, total_votes |-> 0, majority_label |-> "",
     conflicting_labels |-> <<>>]
EnsembleVoter_analysis(rs) ==
    IF Len(rs) < 2 THEN NoAnalysis
    ELSE [max_votes |-> MaxVotes(rs), total_votes |-> Len(rs),
          majority_label |-> MajorityLabel(rs),
          conflicting_labels |-> LabelKeys(rs)]

get_ensemble_result_first(rs) ==
    Result(rs[1].request_id, "ensemble", rs[1].label,
           AvgConfidence(rs, rs[1].label))

get_ensemble_result(rs) ==
    LET l == MajorityLabel(rs)
    IN  Result(rs[1].request_id, "ensemble", l, AvgConfidence(rs, l))

aggregate_results_replan_first(tests) ==
    LET failed == {i \in 1..Len(tests) : tests[i].result = "fail"}
        recs == {tests[i].recommendation : i \in failed}
    IN  IF failed = {} THEN [status |-> "PASS", recommendation |-> "accept"]
        ELSE IF "replan_ensemble" \in recs
        THEN [status |-> "FAIL", recommendation |-> "replan_ensemble"]
        ELSE IF "human_review" \in recs
        THEN [status |-> "FAIL", recommendation |-> "human_review"]
        ELSE IF "replan_different_agents" \in recs
        THEN [status |-> "FAIL", recommendation |-> "replan_different_agents"]
        ELSE [status |-> "FAIL", recommendation |-> "abort"]

aggregate_results(tests) ==
    LET failed == {i \in 1..Len(tests) : tests[i].result = "fail"}
        recs == {tests[i].recommendation : i \in failed}
    IN  IF failed = {} THEN [status |-> "PASS", recommendation |-> "accept"]
        ELSE IF "human_review" \in recs
        THEN [status |-> "FAIL", recommendation |-> "human_review"]
        ELSE IF "replan_ensemble" \in recs
        THEN [status |-> "FAIL", recommendation |-> "replan_ensemble"]
        ELSE IF "replan_different_agents" \in recs
        THEN [status |-> "FAIL", recommendation |-> "replan_different_agents"]
        ELSE [status |-> "FAIL", recommendation |-> "abort"]

\* Verifier.verify as the planner calls it: no agent_url and no slim_client,
\* so the augmentation test is never run
Verifier_verify(rs) ==
    IF rs = <<>>
    THEN [status |-> "FAIL", recommendation |-> "abort", tests |-> <<>>]
    ELSE LET conf_test == ConfidenceGate_verify(rs[1])
             tests == IF Len(rs) > 1 /\ enable_ensemble_voting
                      THEN <<conf_test, EnsembleVoter_verify(rs)>>
                      ELSE <<conf_test>>
             agg == aggregate_results(tests)
         IN  [status |-> agg.status, recommendation |-> agg.recommendation,
              tests |-> tests]

\* ------------------------------------------------------------------ state
VARIABLES
    pc,                          \* node of the graph that runs next
    llm,                         \* self.llm is available
    request,                     \* the admitted request
    iteration,
    intent,                      \* intent["domain"]
    discovered_agents,
    route_decision,
    results,
    verification_status,
    verification_recommendation,
    verification_report,         \* state["verification_report"]
    mismatch_warning,
    error,
    final_response,
    verifier_report,             \* the VerificationReport of the last round
    judge,                       \* the reflection LLM's last output
    decision,                    \* last value returned by _decide_next_action
    rounds,                      \* dispatch rounds executed so far
    round_iteration,             \* value of iteration when the last round ran
    raised,                      \* plan_and_execute took its except branch
    calls,                       \* agent calls issued by the dispatch under way
    catalog,                     \* what discover_all returned to the supervisor
    ranked,                      \* the ids the selection LLM returned
    task_results,                \* the gateway's task_results[task_id]
    stream                       \* the gateway's result stream of the task

vars == <<pc, llm, request, iteration, intent, discovered_agents,
          route_decision, results, verification_status,
          verification_recommendation, verification_report, mismatch_warning,
          error, final_response, verifier_report, judge, decision, rounds,
          round_iteration, raised, calls, catalog, ranked, task_results,
          stream>>

stateVars == <<iteration, intent, discovered_agents, route_decision, results,
               verification_status, verification_recommendation,
               verification_report, mismatch_warning, error, final_response>>

ghostVars == <<verifier_report, judge, decision, rounds, round_iteration>>

selectionVars == <<catalog, ranked>>

gatewayVars == <<task_results, stream>>

\* the state plan_and_execute starts the workflow in, for a request whose
\* constraints.preferred_domains is drawn from Preferred
Start(Preferred) ==
    /\ pc = "supervisor"
    /\ llm \in BOOLEAN
    /\ request \in [request_id : {RequestId}, prompt : Prompts,
                    min_confidence : MinConfidences,
                    preferred_domains : Preferred]
    /\ iteration = 1
    /\ intent = ""
    /\ discovered_agents = <<>>
    /\ route_decision = NoRoute
    /\ results = <<>>
    /\ verification_status = ""
    /\ verification_recommendation = ""
    /\ verification_report = [status |-> ""]
    /\ mismatch_warning = ""
    /\ error = ""
    /\ final_response = NoResponse
    /\ verifier_report = NoReport
    /\ judge = NoJudge
    /\ decision = ""
    /\ rounds = 0
    /\ round_iteration = 0
    /\ raised = FALSE
    /\ calls = <<>>
    /\ catalog = <<>>
    /\ ranked = <<>>
    /\ task_results = [status |-> "PROCESSING"]
    /\ stream = "none"

\* requests as the gateway builds them leave preferred_domains unset; the
\* discovery answers of Spec range over every catalog whatever the tags are
Init == Start({{}})

\* ------------------------------------------------------------- selection
fallback_intent_classification(prompt) ==
    IF prompt = "xray of a chest" THEN "medical"
    ELSE IF prompt = "forest from above" THEN "satellite"
    ELSE "general"

FilterSelected_catalog_order(ids, all_agents) ==
    LET Named(a) == \E i \in 1..Len(ids) : ids[i] = a
    IN  SelectSeq(all_agents, Named)

\* the catalog agents named by ids, in the order of ids
RECURSIVE FilterSelected(_, _)
FilterSelected(ids, all_agents) ==
    IF ids = <<>> THEN <<>>
    ELSE LET rest == FilterSelected(Tail(ids), all_agents)
         IN  IF \E i \in 1..Len(all_agents) : all_agents[i] = Head(ids)
             THEN <<Head(ids)>> \o rest
             ELSE rest

\* Ranked: the id lists the selection LLM can return
supervisor(Ranked) ==
    /\ pc = "supervisor"
    /\ \E discovered \in BOOLEAN, disc \in Catalogs :
         \* a discovery error or timeout leaves all_agents empty
         LET all_agents == IF discovered THEN disc ELSE <<>>
         IN  /\ catalog' = all_agents
             /\ IF all_agents = <<>>
                THEN /\ error' = "NO_AGENTS_AVAILABLE"
                     /\ intent' = "unknown"
                     /\ discovered_agents' = <<>>
                     /\ ranked' = <<>>
                ELSE IF llm
                THEN \E selected \in BOOLEAN, sel \in Ranked :
                       IF ~selected
                       THEN /\ intent' = fallback_intent_classification(request.prompt)
                            /\ discovered_agents' = <<>>
                            /\ ranked' = <<>>
                            /\ UNCHANGED error
                       ELSE LET selected_agents == FilterSelected(sel, all_agents)
                            IN  /\ discovered_agents' =
                                     IF selected_agents = <<>> THEN all_agents
                                     ELSE selected_agents
                                /\ intent' = "llm_selected"
                                /\ ranked' = sel
                                /\ UNCHANGED error
                ELSE /\ intent' = fallback_intent_classification(request.prompt)
                     /\ discovered_agents' = <<>>
                     /\ ranked' = <<>>
                     /\ UNCHANGED error
    /\ pc' = "discover_agents"
    \* a new round starts: the locals of the previous round are gone
    /\ verifier_report' = NoReport
    /\ judge' = NoJudge
    /\ decision' = ""
    /\ UNCHANGED <<gatewayVars, llm, request, iteration, route_decision, results,
                   verification_status, verification_recommendation,
                   verification_report, mismatch_warning, final_response,
                   rounds, round_iteration, raised, calls>>

supervisor_node == supervisor(IdLists)

\* DiscoveryQuery(tags=domain_to_tags[...]) of the fallback
domain_to_tags(domain) ==
    CASE domain = "medical" -> {"medical", "xray", "diagnosis"}
      [] domain = "satellite" -> {"satellite", "geospatial", "aerial"}
      [] domain = "general" -> {"general", "objects", "scenes"}
      [] OTHER -> {"general"}

\* Answers: the lists the tag query can return
discover_agents(Answers) ==
    /\ pc = "discover_agents"
    /\ IF discovered_agents # <<>>
       THEN UNCHANGED <<discovered_agents, error>>
       ELSE \E discovered \in BOOLEAN, disc \in Answers,
               msg \in {"", "discovery failed"} :
              IF ~discovered
              THEN \* str(e) is empty for a timeout
                   /\ error' = msg
                   /\ discovered_agents' = <<>>
              ELSE /\ discovered_agents' = disc
                   /\ error' = IF disc = <<>> THEN "NO_AGENTS_AVAILABLE" ELSE error
    /\ pc' = "route_decision"
    /\ ranked' = <<>>
    /\ UNCHANGED <<gatewayVars, llm, request, iteration, intent, route_decision, results,
                   verification_status, verification_recommendation,
                   verification_report, mismatch_warning, final_response,
                   ghostVars, raised, calls, catalog>>

\* the discovery service answers the tag query with any ranked list
discover_agents_node == discover_agents(Catalogs)

\* ---------------------------------------------------------------- routing
should_use_ensemble_ignores_error ==
    IF discovered_agents = <<>> THEN "error"
    ELSE IF \/ iteration > 1
            \/ request.min_confidence > ensemble_min_confidence
            \/ Len(discovered_agents) >= ensemble_pool
    THEN "ensemble"
    ELSE "simple"

should_use_ensemble_any_pool ==
    IF error # "" THEN "error"
    ELSE IF \/ iteration > 1
            \/ request.min_confidence > ensemble_min_confidence
            \/ Len(discovered_agents) >= ensemble_pool
    THEN "ensemble"
    ELSE "simple"

should_use_ensemble ==
    IF error # "" THEN "error"
    ELSE IF discovered_agents = <<>> THEN "error"
    ELSE IF \/ iteration > 1
            \/ request.min_confidence > ensemble_min_confidence
            \/ Len(discovered_agents) >= ensemble_pool
    THEN "ensemble"
    ELSE "simple"

route_decision_node ==
    /\ pc = "route_decision"
    /\ pc' = CASE should_use_ensemble = "simple" -> "route_simple"
               [] should_use_ensemble = "ensemble" -> "route_ensemble"
               [] OTHER -> "handle_error"
    /\ catalog' = <<>>
    /\ ranked' = <<>>
    /\ UNCHANGED <<gatewayVars, llm, request, stateVars, ghostVars, raised, calls>>

Selected(agent_id, role) == [agent_id |-> agent_id, role |-> role]

route_simple_node ==
    /\ pc = "route_simple"
    /\ LET agents == discovered_agents
           first == IF Len(agents) >= 1
                    THEN <<Selected(agents[1], "primary")>> ELSE <<>>
           second == IF Len(agents) > 1
                     THEN <<Selected(agents[2], "secondary")>> ELSE <<>>
       IN  route_decision' = [strategy |-> "single_best",
                              selected_agents |-> first \o second]
    /\ pc' = "execute_tasks"
    /\ UNCHANGED <<gatewayVars, llm, request, iteration, intent, discovered_agents, results,
                   verification_status, verification_recommendation,
                   verification_report, mismatch_warning, error,
                   final_response, ghostVars, raised, calls, selectionVars>>

route_ensemble_node ==
    /\ pc = "route_ensemble"
    /\ LET agents == SubSeq(discovered_agents, 1,
                            Min2(ensemble_limit, Len(discovered_agents)))
       IN  route_decision' =
             [strategy |-> "parallel_ensemble",
              selected_agents |-> [i \in 1..Len(agents) |->
                                     Selected(agents[i], "ensemble")]]
    /\ pc' = "execute_tasks"
    /\ UNCHANGED <<gatewayVars, llm, request, iteration, intent, discovered_agents, results,
                   verification_status, verification_recommendation,
                   verification_report, mismatch_warning, error,
                   final_response, ghostVars, raised, calls, selectionVars>>

\* --------------------------------------------------------------- dispatch
\* results of the calls that returned status success, in call order
RECURSIVE Collect(_, _)
Collect(outs, selected_agents) ==
    IF outs = <<>> THEN <<>>
    ELSE LET init == Collect(SubSeq(outs, 1, Len(outs) - 1), selected_agents)
             o == outs[Len(outs)]
         IN  IF o.status = "success"
             THEN Append(init, parse_classification_result(
                                   o.response, selected_agents[Len(outs)].agent_id))
             ELSE init

single_best_results_no_fallback(selected_agents, o1, o2) ==
    IF o1.status = "success"
    THEN <<parse_classification_result(o1.response, selected_agents[1].agent_id)>>
    ELSE <<>>

single_best_results_retry_low(selected_agents, o1, o2) ==
    LET first == IF o1.status = "success"
                 THEN <<parse_classification_result(
                            o1.response, selected_agents[1].agent_id)>>
                 ELSE <<>>
    IN  IF first # <<>> /\ first[1].confidence >= pass_threshold THEN first
        ELSE IF Len(selected_agents) > 1 /\ o2.status = "success"
        THEN <<parse_classification_result(o2.response, selected_agents[2].agent_id)>>
        ELSE first

\* single_best: the secondary is called only when the primary call raises
single_best_results(selected_agents, o1, o2) ==
    IF o1.status = "success"
    THEN <<parse_classification_result(o1.response, selected_agents[1].agent_id)>>
    ELSE IF o1.status = "raise" /\ Len(selected_agents) > 1 /\ o2.status = "success"
    THEN <<parse_classification_result(o2.response, selected_agents[2].agent_id)>>
    ELSE <<>>

parallel_ensemble_results_fail_fast(selected_agents, outs) ==
    IF \E i \in 1..Len(outs) : outs[i].status # "success" THEN <<>>
    ELSE Collect(outs, selected_agents)

\* broadcast_message_to_agents turns a raised call into a status error entry
parallel_ensemble_results(selected_agents, outs) == Collect(outs, selected_agents)

execute_error(rs, old) == IF rs = <<>> THEN "ALL_AGENTS_FAILED" ELSE old

Call(agent_id, out) == [agent_id |-> agent_id, out |-> out]

\* the calls of send_message_to_agent single_best issues
single_best_calls(selected_agents, o1, o2) ==
    IF o1.status = "raise" /\ Len(selected_agents) > 1
    THEN <<Call(selected_agents[1].agent_id, o1),
           Call(selected_agents[2].agent_id, o2)>>
    ELSE <<Call(selected_agents[1].agent_id, o1)>>

\* broadcast_message_to_agents: one task per agent card, gathered together
parallel_ensemble_calls(selected_agents, outs) ==
    [i \in 1..Len(selected_agents) |-> Call(selected_agents[i].agent_id, outs[i])]

\* an awaited call that never returns: neither await send_message_to_agent
\* nor asyncio.gather comes back (timeout_seconds is not used)
Awaited(cs) == \E i \in 1..Len(cs) : cs[i].out.status = "never"

Dispatched_accumulates(cs, rs) ==
    /\ calls' = cs
    /\ IF Awaited(cs)
       THEN UNCHANGED <<pc, results, error, rounds, round_iteration>>
       ELSE /\ results' = results \o rs
            /\ error' = execute_error(rs, error)
            /\ rounds' = Min2(rounds + 1, MaxRounds)
            /\ round_iteration' = iteration
            /\ pc' = "reflection"

\* the node's effect once the calls cs have been issued and rs collected
Dispatched(cs, rs) ==
    /\ calls' = cs
    /\ IF Awaited(cs)
       THEN UNCHANGED <<pc, results, error, rounds, round_iteration>>
       ELSE /\ results' = rs
            /\ error' = execute_error(rs, error)
            /\ rounds' = Min2(rounds + 1, MaxRounds)
            /\ round_iteration' = iteration
            /\ pc' = "reflection"

execute_tasks(Outcomes) ==
    /\ pc = "execute_tasks"
    /\ ~Awaited(calls)
    /\ LET sel == route_decision.selected_agents
       IN  \/ /\ route_decision.strategy = "single_best"
              /\ \E o1 \in Outcomes, o2 \in Outcomes :
                   Dispatched(single_best_calls(sel, o1, o2),
                              single_best_results(sel, o1, o2))
           \/ /\ route_decision.strategy = "parallel_ensemble"
              /\ \E outs \in [1..Len(sel) -> Outcomes] :
                   Dispatched(parallel_ensemble_calls(sel, outs),
                              parallel_ensemble_results(sel, outs))
           \/ \* except Exception: an error outside the agent calls
              /\ calls' = <<>>
              /\ results' = <<>>
              /\ error' = "task execution error"
              /\ rounds' = Min2(rounds + 1, MaxRounds)
              /\ round_iteration' = iteration
              /\ pc' = "reflection"
    /\ UNCHANGED <<gatewayVars, llm, request, iteration, intent, discovered_agents,
                   route_decision, verification_status,
                   verification_recommendation, verification_report,
                   mismatch_warning, final_response, verifier_report, judge,
                   decision, raised, selectionVars>>

\* in the running system every agent call returns
execute_tasks_node == execute_tasks(CallOutcomes)

\* ------------------------------------------------------------- reflection
fallback_reflection(rs, min_confidence, report) ==
    LET max_confidence == MaxConfidence(rs)
        verifier_passed == report.status = "PASS"
    IN  IF max_confidence >= min_confidence \/ verifier_passed
        THEN [status |-> "PASS", recommendation |-> "success"]
        ELSE [status |-> "FAIL", recommendation |-> "replan"]

\* the decision taken from the LLM's ShouldContinue output
llm_reflection(j, it) ==
    IF j.mismatch_detected
    THEN [status |-> "PASS", recommendation |-> "success"]
    ELSE IF j.should_continue /\ it < MAX_REPLANS
    THEN [status |-> "FAIL", recommendation |-> "replan"]
    ELSE [status |-> "PASS", recommendation |-> "success"]

no_results_reflection_accepts == [status |-> "PASS", recommendation |-> "success"]

\* the decision for a round without results
no_results_reflection == [status |-> "FAIL", recommendation |-> "replan"]

reflection_node ==
    /\ pc = "reflection"
    /\ IF results = <<>>
       THEN /\ verification_status' = no_results_reflection.status
            /\ verification_recommendation' = no_results_reflection.recommendation
            /\ verification_report' = [status |-> ""]
            /\ verifier_report' = NoReport
            /\ judge' = NoJudge
            /\ UNCHANGED mismatch_warning
       ELSE \E verified \in BOOLEAN, j \in JudgeOutputs \cup {NoJudge} :
              \* verifier.verify returns a report or raises
              LET report == IF verified THEN Verifier_verify(results) ELSE NoReport
                  refl == IF j.kind = "ok" THEN llm_reflection(j, iteration)
                          ELSE fallback_reflection(results, request.min_confidence, report)
              IN  /\ (j.kind = "none") <=> ~llm
                  /\ verifier_report' = report
                  /\ verification_report' =
                       IF verified THEN [status |-> report.status]
                       ELSE [status |-> "error"]
                  /\ judge' = j
                  /\ verification_status' = refl.status
                  /\ verification_recommendation' = refl.recommendation
                  /\ mismatch_warning' =
                       IF j.kind = "ok" /\ j.mismatch_detected THEN j.reason
                       ELSE mismatch_warning
    /\ pc' = "check_status"
    /\ calls' = <<>>
    /\ UNCHANGED <<gatewayVars, llm, request, iteration, intent, discovered_agents,
                   route_decision, results, error, final_response, decision,
                   rounds, round_iteration, raised, selectionVars>>

\* ----------------------------------------------------------- continuation
\* the iteration counter after _check_status_node
check_status(status, recommendation, it) ==
    IF status = "PASS" THEN it
    ELSE IF recommendation = "human_review" THEN it
    ELSE IF it >= MAX_REPLANS THEN it
    ELSE it + 1

decide_next_action_off_by_one(err, status, recommendation, it) ==
    IF err # "" THEN "error"
    ELSE IF status = "PASS" THEN "success"
    ELSE IF recommendation = "human_review" THEN "human_review"
    ELSE IF it > MAX_REPLANS THEN "max_replans"
    ELSE "replan"

decide_next_action(err, status, recommendation, it) ==
    IF err # "" THEN "error"
    ELSE IF status = "PASS" THEN "success"
    ELSE IF recommendation = "human_review" THEN "human_review"
    ELSE IF it >= MAX_REPLANS THEN "max_replans"
    ELSE "replan"

next_node_loop(d) ==
    CASE d = "success" -> "finalize_response"
      [] d = "replan" -> "supervisor"
      [] d = "human_review" -> "finalize_response"
      [] d = "max_replans" -> "supervisor"
      [] OTHER -> "handle_error"

\* the conditional edges leaving check_status
next_node(d) ==
    CASE d = "success" -> "finalize_response"
      [] d = "replan" -> "supervisor"
      [] d = "human_review" -> "finalize_response"
      [] d = "max_replans" -> "finalize_response"
      [] OTHER -> "handle_error"

check_status_node ==
    /\ pc = "check_status"
    /\ iteration' = check_status(verification_status,
                                 verification_recommendation, iteration)
    /\ decision' = decide_next_action(error, verification_status,
                                      verification_recommendation, iteration')
    /\ pc' = next_node(decision')
    /\ UNCHANGED <<gatewayVars, llm, request, intent, discovered_agents, route_decision,
                   results, verification_status, verification_recommendation,
                   verification_report, mismatch_warning, error,
                   final_response, verifier_report, judge, rounds,
                   round_iteration, raised, calls, selectionVars>>

\* ------------------------------------------------------------ finalizing
NoResult == [request_id |-> "", agent_id |-> "", label |-> "", confidence |-> 0]

Response(status, err, result, warning, it) ==
    [status |-> status, error |-> err, result |-> result,
     mismatch_warning |-> warning, iterations |-> it]

finalize_response(status, recommendation, rs, warning, err, it) ==
    IF status = "PASS" /\ rs # <<>>
    THEN LET final_result == IF Len(rs) = 1 THEN rs[1] ELSE get_ensemble_result(rs)
         IN  IF warning # ""
             THEN Response("COMPLETED_WITH_WARNING", "", final_result, warning, it)
             ELSE Response("COMPLETED", "", final_result, "", it)
    ELSE IF recommendation = "human_review"
    THEN Response("NEEDS_REVIEW", "", IF rs # <<>> THEN rs[1] ELSE NoResult, "", it)
    ELSE IF it >= MAX_REPLANS
    THEN Response("INCONCLUSIVE", "MAX_REPLANS_EXCEEDED", NoResult, "", it)
    ELSE Response("FAILED", err, NoResult, "", it)

finalize_response_node ==
    /\ pc = "finalize_response"
    /\ final_response' = finalize_response(verification_status,
                             verification_recommendation, results,
                             mismatch_warning, error, iteration)
    /\ pc' = "done"
    /\ UNCHANGED <<gatewayVars, llm, request, iteration, intent, discovered_agents,
                   route_decision, results, verification_status,
                   verification_recommendation, verification_report,
                   mismatch_warning, error, ghostVars, raised, calls, selectionVars>>

handle_error_next_iteration(err, it) == Response("FAILED", err, NoResult, "", it + 1)

handle_error(err, it) == Response("FAILED", err, NoResult, "", it)

handle_error_node ==
    /\ pc = "handle_error"
    /\ final_response' = handle_error(error, iteration)
    /\ pc' = "done"
    /\ UNCHANGED <<gatewayVars, llm, request, iteration, intent, discovered_agents,
                   route_decision, results, verification_status,
                   verification_recommendation, verification_report,
                   mismatch_warning, error, ghostVars, raised, calls, selectionVars>>

exception_response_reraised == Response("RAISED", "exception", NoResult, "", 1)

\* the response plan_and_execute builds when graph.ainvoke raises
exception_response == Response("FAILED", "exception", NoResult, "", 1)

\* an exception escapes a node and is caught by plan_and_execute: the
\* graph's state is lost with it (final_state is never bound)
plan_and_execute_except ==
    /\ pc # "done"
    /\ ~Awaited(calls)
    /\ final_response' = exception_response
    /\ raised' = TRUE
    /\ pc' = "done"
    /\ intent' = ""
    /\ discovered_agents' = <<>>
    /\ route_decision' = NoRoute
    /\ results' = <<>>
    /\ verification_status' = ""
    /\ verification_recommendation' = ""
    /\ verification_report' = [status |-> ""]
    /\ mismatch_warning' = ""
    /\ error' = ""
    /\ verifier_report' = NoReport
    /\ judge' = NoJudge
    /\ decision' = ""
    /\ calls' = <<>>
    /\ catalog' = <<>>
    /\ ranked' = <<>>
    /\ UNCHANGED <<gatewayVars, llm, request, iteration, rounds, round_iteration>>

\* ---------------------------------------------------------- specification
Next ==
    \/ supervisor_node
    \/ discover_agents_node
    \/ route_decision_node
    \/ route_simple_node
    \/ route_ensemble_node
    \/ execute_tasks_node
    \/ reflection_node
    \/ check_status_node
    \/ finalize_response_node
    \/ handle_error_node
    \/ plan_and_execute_except

Spec == Init /\ [][Next]_vars

\* every node that is entered returns: the graph keeps stepping
FairSpec == Spec /\ WF_vars(Next)

\* the planner with agents that may answer anything, or never answer
dispatch_tasks == execute_tasks(WideCallOutcomes)

WideNext ==
    \/ supervisor_node
    \/ discover_agents_node
    \/ route_decision_node
    \/ route_simple_node
    \/ route_ensemble_node
    \/ dispatch_tasks
    \/ reflection_node
    \/ check_status_node
    \/ finalize_response_node
    \/ handle_error_node
    \/ plan_and_execute_except

\* a planner built without an LLM (create_llm failed), one prompt
WideInit == Init /\ ~llm /\ request.prompt = "a photo"

WideSpec == WideInit /\ [][WideNext]_vars

\* ------------------------------------------------ selection on its own
\* the registry of StaticAgentDiscovery: the tags of each agent's
\* image_classification skill, and success_rate / latency (in 1/1000)
AgentTags(a) ==
    CASE a = "a1" -> {"general", "objects", "scenes", "imagenet"}
      [] a = "a2" -> {"medical", "xray", "ct_scan", "pneumonia",
                      "tuberculosis", "diagnosis"}
      [] a = "a3" -> {"satellite", "geospatial", "landcover", "urban",
                      "forest", "water"}
      [] a = "a4" -> {"langgraph", "stateful", "workflow", "general",
                      "animals", "vehicles", "food", "objects"}
      [] OTHER -> {"general"}
AgentScore(a) ==
    CASE a = "a1" -> 850
      [] a = "a2" -> 767
      [] a = "a3" -> 587
      [] a = "a4" -> 500
      [] OTHER -> 400

\* tag_match_score * success_rate / latency_penalty, times len(query.tags)
QueryScore(a, tags) == Cardinality(AgentTags(a) \cap tags) * AgentScore(a)

discover_limit == 5

\* StaticAgentDiscovery.discover over the agents the service holds: the
\* agents sharing a tag with the query, by descending score (the sort is
\* stable), cut at limit
discover(agents, tags, limit) ==
    LET M == {i \in 1..Len(agents) : AgentTags(agents[i]) \cap tags # {}}
        n == Cardinality(M)
        order == CHOOSE f \in [1..n -> M] :
                   \A i, j \in 1..n :
                      i < j => \/ QueryScore(agents[f[i]], tags)
                                    > QueryScore(agents[f[j]], tags)
                               \/ /\ QueryScore(agents[f[i]], tags)
                                       = QueryScore(agents[f[j]], tags)
                                  /\ f[i] < f[j]
    IN  [k \in 1..Min2(n, limit) |-> agents[order[k]]]

\* constraints.preferred_domains of a request sent to the planner: unset, or
\* one domain
PreferredDomains == {{}, {"medical"}}

\* the tags of the query: the domain's tags, extended by preferred_domains
query_tags(domain, preferred_domains) ==
    domain_to_tags(domain) \cup preferred_domains

RankedLists == UNION {[1..n -> IdUniverse] : n \in 0..MaxRanked}

select_agents == supervisor(RankedLists)

\* the service holds the agents discover_all returned
discover_by_tags ==
    discover_agents({discover(catalog,
                              query_tags(intent, request.preferred_domains),
                              discover_limit)})

SelectNext ==
    \/ select_agents
    \/ discover_by_tags
    \/ route_decision_node
    \/ route_simple_node
    \/ route_ensemble_node

SelectInit == Start(PreferredDomains)

SelectSpec == SelectInit /\ [][SelectNext]_vars

\* ------------------------------------------- the verifier's components
\* result lists and performed tests a caller can hand to the components
VoteLabels == {"pneumonia", "normal", "other"}
VoteConfidences == {800, 750, 600, 300}
ResultLists ==
    UNION {[1..n -> {Result(RequestId, "a1", l, c) :
                       l \in VoteLabels, c \in VoteConfidences}]
           : n \in 0..MaxResults}
TestPool ==
    {Test("confidence_threshold", "pass", "accept"),
     Test("ensemble_voting", "skip", "none"),
     Test("augmentation_stability", "fail", "none")}
    \cup {Test("confidence_threshold", "fail", r) :
             r \in {"human_review", "replan_ensemble",
                    "replan_different_agents", "abort"}}
TestLists == UNION {[1..n -> TestPool] : n \in 0..MaxTests}

Report(status, recommendation, tests, analysis) ==
    [status |-> status, recommendation |-> recommendation, tests |-> tests,
     disagreement_analysis |-> analysis]

otherVars == <<gatewayVars, llm, request, iteration, intent, discovered_agents,
               route_decision, verification_status,
               verification_recommendation, verification_report,
               mismatch_warning, error, judge, decision, rounds,
               round_iteration, raised, calls, selectionVars>>

VerifierInit ==
    /\ llm = FALSE
    /\ request = [request_id |-> RequestId, prompt |-> "xray of a chest",
                  min_confidence |-> 750, preferred_domains |-> {}]
    /\ iteration = 1
    /\ intent = ""
    /\ discovered_agents = <<>>
    /\ route_decision = NoRoute
    /\ verification_status = ""
    /\ verification_recommendation = ""
    /\ verification_report = [status |-> ""]
    /\ mismatch_warning = ""
    /\ error = ""
    /\ final_response = NoResponse
    /\ judge = NoJudge
    /\ decision = ""
    /\ rounds = 0
    /\ round_iteration = 0
    /\ raised = FALSE
    /\ calls = <<>>
    /\ catalog = <<>>
    /\ ranked = <<>>
    /\ task_results = [status |-> "PROCESSING"]
    /\ stream = "none"
    /\ \/ /\ pc = "confidence_gate"
          /\ results \in ResultLists \ {<<>>}
          /\ verifier_report = Report("N/A", "N/A", <<>>, NoAnalysis)
       \/ /\ pc = "aggregate"
          /\ results = <<>>
          /\ verifier_report \in
               {Report("N/A", "N/A", ts, NoAnalysis) : ts \in TestLists}

\* ConfidenceGate.verify on the primary result; called a second time on
\* the same result
confidence_gate_call ==
    /\ pc \in {"confidence_gate", "confidence_gate_again"}
    /\ verifier_report' =
         [verifier_report EXCEPT !.tests = <<ConfidenceGate_verify(results[1])>>]
    /\ pc' = IF pc = "confidence_gate" THEN "confidence_gate_again"
             ELSE "ensemble_voter"
    /\ UNCHANGED <<results, final_response, otherVars>>

\* EnsembleVoter.verify on the whole list
ensemble_voter_call ==
    /\ pc = "ensemble_voter"
    /\ verifier_report' =
         [verifier_report EXCEPT
            !.tests = Append(@, EnsembleVoter_verify(results)),
            !.disagreement_analysis = EnsembleVoter_analysis(results)]
    /\ pc' = "aggregate"
    /\ UNCHANGED <<results, final_response, otherVars>>

\* Verifier._aggregate_results on the performed tests
aggregate_call ==
    /\ pc = "aggregate"
    /\ LET agg == aggregate_results(verifier_report.tests)
       IN  verifier_report' =
             [verifier_report EXCEPT !.status = agg.status,
                                     !.recommendation = agg.recommendation]
    /\ pc' = "ensemble_result"
    /\ UNCHANGED <<results, final_response, otherVars>>

\* EnsembleVoter.get_ensemble_result on the whole list
get_ensemble_result_call ==
    /\ pc = "ensemble_result"
    /\ results # <<>>
    /\ final_response' =
         Response("COMPLETED", "", get_ensemble_result(results), "", iteration)
    /\ pc' = "verified"
    /\ UNCHANGED <<results, verifier_report, otherVars>>

VerifierNext ==
    \/ confidence_gate_call
    \/ ensemble_voter_call
    \/ aggregate_call
    \/ get_ensemble_result_call

VerifierSpec == VerifierInit /\ [][VerifierNext]_vars

\* ------------------------------------------------------------ the gateway
plannerVars == <<pc, llm, request, iteration, intent, discovered_agents,
                 route_decision, results, verification_status,
                 verification_recommendation, verification_report,
                 mismatch_warning, error, final_response, verifier_report,
                 judge, decision, rounds, round_iteration, raised, calls,
                 catalog, ranked>>

\* the statuses on which event_generator leaves its loop
StreamEndStatuses == {"COMPLETED", "COMPLETED_WITH_WARNING", "FAILED"}

\* _send_to_planner: the POST returns the planner's response and its status
\* is stored, or the POST fails (connection error, HTTP error, the 60 s
\* timeout) and the task is stored as FAILED
send_to_planner ==
    /\ task_results.status = "PROCESSING"
    /\ \/ /\ pc = "done"
          /\ task_results' = [status |-> final_response.status]
       \/ task_results' = [status |-> "FAILED"]
    /\ UNCHANGED <<plannerVars, stream>>

\* GET /classify/{task_id}/stream: the client opens the stream of its task
stream_classification_result ==
    /\ stream = "none"
    /\ stream' = "open"
    /\ UNCHANGED <<plannerVars, task_results>>

\* one turn of event_generator's loop: yield the stored result, leave the
\* loop on an end status, otherwise sleep and go round again
event_generator ==
    /\ stream = "open"
    /\ stream' = IF task_results.status \in StreamEndStatuses
                 THEN "closed" ELSE "open"
    /\ UNCHANGED <<plannerVars, task_results>>

GatewayNext ==
    \/ Next
    \/ send_to_planner
    \/ stream_classification_result
    \/ event_generator

\* a task submitted through the gateway to a planner built without an LLM
GatewayInit == Init /\ ~llm /\ request.prompt = "a photo"

\* the planner keeps stepping, the POST comes back and the generator runs
GatewaySpec ==
    /\ GatewayInit /\ [][GatewayNext]_vars
    /\ WF_vars(Next) /\ WF_vars(send_to_planner) /\ WF_vars(event_generator)

\* ================================================================ claims
FinalStatuses ==
    {"COMPLETED", "COMPLETED_WITH_WARNING", "NEEDS_REVIEW", "INCONCLUSIVE", "FAILED"}

\* C1: whatever discovery, the agents, parsing, the judge and the verifier
\* do, and also when an exception escapes a node, plan_and_execute returns a
\* response whose status is one of the five final statuses; before it
\* returns there is no response.
C1_FinalStatusDefined ==
    /\ pc = "done" => final_response.status \in FinalStatuses
    /\ pc # "done" => final_response = NoResponse
    /\ raised => pc = "done" /\ final_response.status = "FAILED"

C1_Witness ==
    pc = "done" /\ raised /\ rounds = 1 /\ final_response.status = "FAILED"

\* C2: the iteration counter starts at 1, never decreases and stays within
\* 1..MAX_REPLANS; every final response reports 0 <= iterations <= MAX_REPLANS.
C2_IterationBounded ==
    /\ iteration = 1
    /\ [](/\ iteration \in 1..MAX_REPLANS
          /\ pc = "done" => final_response.iterations \in 0..MAX_REPLANS)
    /\ [][iteration' >= iteration]_vars

C2_Witness ==
    pc = "done" /\ ~raised /\ iteration = MAX_REPLANS
    /\ final_response.iterations = MAX_REPLANS

\* C3: when every call returns (the graph keeps stepping), every request
\* reaches its final response, and at most MAX_REPLANS dispatch rounds are run.
C3_Terminates ==
    /\ <>(pc = "done")
    /\ [](rounds <= MAX_REPLANS)

C3_Witness ==
    pc = "done" /\ ~raised /\ rounds = 2 /\ final_response.status \in FinalStatuses

\* C4: agent selection is entered again only from check_status, on decision
\* replan and with iteration < MAX_REPLANS; any other decision leads to
\* finalization, after which the request ends and no round is dispatched.
C4_ReplanOnly ==
    [][/\ (pc' = "supervisor")
            => /\ pc = "check_status"
               /\ decision' = "replan"
               /\ iteration' < MAX_REPLANS
       /\ (pc = "check_status" /\ decision' # "replan")
            => pc' \in {"finalize_response", "handle_error", "done"}
       /\ (pc \in {"finalize_response", "handle_error", "done"})
            => pc' = "done" /\ rounds' = rounds]_vars

C4_Witness ==
    pc = "supervisor" /\ decision = "replan" /\ rounds = 1 /\ iteration = 2

\* C5: when the Verifier's report for the round is FAIL with recommendation
\* human_review, the decision is human_review (escalate) and the final status
\* is NEEDS_REVIEW.
C5_EscalateOnHumanReview ==
    (verifier_report.status = "FAIL"
     /\ verifier_report.recommendation = "human_review")
    => /\ decision # "" => decision = "human_review"
       /\ pc = "done" => final_response.status = "NEEDS_REVIEW"

\* C6: when the Verifier's report for the round is PASS, the decision is
\* success (accept) whatever the iteration and the judge's output, and the
\* final status is COMPLETED or COMPLETED_WITH_WARNING.
C6_AcceptOnPass ==
    verifier_report.status = "PASS"
    => /\ decision # "" => decision = "success"
       /\ pc = "done" =>
            final_response.status \in {"COMPLETED", "COMPLETED_WITH_WARNING"}

C8_MismatchAccepted ==
    (judge.kind = "ok" /\ judge.mismatch_detected /\ results # <<>>)
    => /\ decision # "" => decision = "success"
       /\ pc = "done" =>
            /\ final_response.status = "COMPLETED_WITH_WARNING"
            /\ final_response.mismatch_warning = judge.reason

\* C9: when check_status and _decide_next_action, applied to the Verifier's
\* report and the iteration of the round, yield max_replans (abort), the final
\* status is INCONCLUSIVE whatever the judge returned, in particular when the
\* judge flags no mismatch.
C9_JudgeNeverOverridesAbort ==
    LET it == check_status(verifier_report.status,
                           verifier_report.recommendation, round_iteration)
        core == decide_next_action("", verifier_report.status,
                                   verifier_report.recommendation, it)
    IN  (pc = "done" /\ judge.kind = "ok" /\ ~judge.mismatch_detected
         /\ verifier_report.status = "FAIL" /\ core = "max_replans")
        => final_response.status = "INCONCLUSIVE"

\* C10: when every agent call of a round run at iteration < MAX_REPLANS fails
\* (error ALL_AGENTS_FAILED), the decision after the round is replan.
C10_ReplanOnAllAgentsFailed ==
    (error = "ALL_AGENTS_FAILED" /\ round_iteration < MAX_REPLANS
     /\ decision # "")
    => decision = "replan"

\* C11: when selection and discovery leave a request without agents (empty
\* catalog: error NO_AGENTS_AVAILABLE; empty tag-filtered result; discovery
\* error: no discovered agents), no agent call is made in that iteration and
\* the final status is FAILED.
C11_NoAgentsFails ==
    (pc = "done" /\ ~raised
     /\ (discovered_agents = <<>> \/ error = "NO_AGENTS_AVAILABLE"))
    => /\ final_response.status = "FAILED"
       /\ round_iteration < iteration
       /\ calls = <<>>

C11_Witness ==
    /\ pc = "done" /\ ~raised /\ rounds = 0
    /\ discovered_agents # <<>> /\ error = "NO_AGENTS_AVAILABLE"
    /\ final_response.status = "FAILED"

\* C12: when the Verifier raises while verifying a round's results, the
\* round is treated as FAIL (its results are not accepted): the status after
\* reflection is FAIL and the final status is neither COMPLETED nor
\* COMPLETED_WITH_WARNING.
C12_VerifierErrorFails ==
    (verification_report.status = "error" /\ results # <<>>)
    => /\ verification_status = "FAIL"
       /\ pc = "done" =>
            final_response.status \notin {"COMPLETED", "COMPLETED_WITH_WARNING"}

\* C13: the strategy of the round is parallel_ensemble when iteration > 1 or
\* min_confidence > 0.85 and single_best otherwise, whatever the number of
\* candidate agents (>= 1), in particular single_best at iteration 1 with
\* min_confidence <= 0.85 and three or more agents.
C13_StrategyByIterationAndConfidence ==
    pc = "execute_tasks"
    => route_decision.strategy =
         IF iteration > 1 \/ request.min_confidence > ensemble_min_confidence
         THEN "parallel_ensemble" ELSE "single_best"

\* the calls of the dispatch that returned a success response
SuccessIdx == {i \in 1..Len(calls) : calls[i].out.status = "success"}

\* the result parsed from the i-th call of the dispatch
ParsedCall(i) ==
    parse_classification_result(calls[i].out.response,
                                route_decision.selected_agents[i].agent_id)

\* C14: in single_best dispatch, when the primary's call raises and the
\* secondary's call succeeds, the round's result list is exactly the one
\* result parsed from the secondary's response.
C14_SecondaryOnPrimaryRaise ==
    (pc = "reflection" /\ route_decision.strategy = "single_best"
     /\ Len(route_decision.selected_agents) > 1 /\ calls # <<>>
     /\ calls[1].out.status = "raise")
    => /\ Len(calls) = 2
       /\ calls[2].agent_id = route_decision.selected_agents[2].agent_id
       /\ calls[2].out.status = "success" => results = <<ParsedCall(2)>>

C14_Witness ==
    /\ pc = "reflection" /\ route_decision.strategy = "single_best"
    /\ Len(calls) = 2 /\ calls[1].out.status = "raise"
    /\ calls[2].out.status = "success"
    /\ Len(results) = 1 /\ results[1].agent_id = "a2"

\* C15: in single_best dispatch with a secondary selected, ALL_AGENTS_FAILED
\* is reported only when both the primary and the secondary were called and
\* neither delivered a result.
C15_AllFailedOnlyAfterBothCalled ==
    (pc = "reflection" /\ route_decision.strategy = "single_best"
     /\ Len(route_decision.selected_agents) > 1
     /\ error = "ALL_AGENTS_FAILED")
    => /\ Len(calls) = 2
       /\ SuccessIdx = {}

\* C16: in single_best dispatch, when the primary's call succeeds, whatever
\* confidence it states, the secondary is not called and the round's result
\* list is exactly the result parsed from the primary's response.
C16_PrimarySuccessIsFinal ==
    (pc = "reflection" /\ route_decision.strategy = "single_best"
     /\ calls # <<>> /\ calls[1].out.status = "success")
    => /\ Len(calls) = 1
       /\ calls[1].agent_id = route_decision.selected_agents[1].agent_id
       /\ results = <<ParsedCall(1)>>

C16_Witness ==
    /\ pc = "reflection" /\ route_decision.strategy = "single_best"
    /\ Len(route_decision.selected_agents) = 2
    /\ Len(calls) = 1 /\ calls[1].out.status = "success"
    /\ calls[1].out.response.raw = "Label: cat / Confidence: 0.0"
    /\ Len(results) = 1 /\ results[1].label = "cat" /\ results[1].confidence = 0

\* C17: in parallel_ensemble dispatch every selected agent is called once;
\* the round's result list holds, in call order, exactly one result for each
\* call that returned a success response and none for the calls that raised
\* or returned an error; ALL_AGENTS_FAILED is reported if and only if no
\* call succeeded.
C17_EnsembleCollectsSuccesses ==
    (pc = "reflection" /\ route_decision.strategy = "parallel_ensemble"
     /\ calls # <<>>)
    => /\ Len(calls) = Len(route_decision.selected_agents)
       /\ Len(results) = Cardinality(SuccessIdx)
       /\ \A i \in SuccessIdx :
            results[Cardinality({j \in SuccessIdx : j <= i})] = ParsedCall(i)
       /\ (error = "ALL_AGENTS_FAILED") <=> (SuccessIdx = {})

C17_Witness ==
    /\ pc = "reflection" /\ route_decision.strategy = "parallel_ensemble"
    /\ Len(calls) = 3 /\ calls[1].out.status = "raise"
    /\ calls[2].out.status = "success" /\ calls[3].out.status = "error"
    /\ Len(results) = 1 /\ error = ""

\* C18: in parallel_ensemble dispatch, when a member never responds, the
\* dispatch has still completed (the node has returned) with one result for
\* each member that responded with success.
C18_MemberTimeout ==
    (route_decision.strategy = "parallel_ensemble"
     /\ (\E i \in 1..Len(calls) : calls[i].out.status = "never")
     /\ SuccessIdx # {})
    => /\ pc = "reflection"
       /\ Len(results) = Cardinality(SuccessIdx)

\* C19: a response text that is neither JSON nor in the Label / Confidence
\* line format is parsed into a result with label parse_error and
\* confidence 0.
C19_MalformedIsParseError ==
    (pc = "reflection" /\ route_decision.strategy = "single_best"
     /\ Len(calls) = 1 /\ calls[1].out.status = "success"
     /\ calls[1].out.response.shape = "text"
     /\ ~calls[1].out.response.has_label
     /\ ~calls[1].out.response.has_confidence)
    => /\ Len(results) = 1
       /\ results[1].label = "parse_error"
       /\ results[1].confidence = 0

\* C20: every result handed to the Verifier or carried by a final response
\* (parsed from JSON or text, parse_error, or ensemble-combined) has a
\* confidence within [0, 1], whatever confidence the response states.
C20_ConfidenceInRange ==
    /\ \A i \in 1..Len(results) :
         results[i].confidence >= 0 /\ results[i].confidence <= Scale
    /\ pc = "done" =>
         /\ final_response.result.confidence >= 0
         /\ final_response.result.confidence <= Scale

C20_Witness ==
    /\ pc = "reflection" /\ Len(calls) = 3 /\ SuccessIdx = {1, 2, 3}
    /\ calls[1].out.response.confidence = 1500
    /\ calls[2].out.response.confidence = 0 - 200
    /\ calls[3].out.response.confidence = 800
    /\ Len(results) = 3
    /\ results[1].label = "parse_error" /\ results[1].confidence = 0
    /\ results[2].label = "parse_error" /\ results[2].confidence = 0

\* C21: ConfidenceGate.verify depends only on the result's confidence and the
\* thresholds: confidence >= 0.75 gives pass/accept, 0.6 <= confidence < 0.75
\* fail/replan_ensemble, confidence < 0.6 fail/human_review, after the first
\* call and again after a second call on the same result.
C21_ConfidenceGate ==
    (pc \in {"confidence_gate_again", "ensemble_voter"})
    => LET c == results[1].confidence
           t == verifier_report.tests[1]
       IN  /\ Len(verifier_report.tests) = 1
           /\ t.test_name = "confidence_threshold"
           /\ c >= 750 => t.result = "pass" /\ t.recommendation = "accept"
           /\ (c >= 600 /\ c < 750)
                => t.result = "fail" /\ t.recommendation = "replan_ensemble"
           /\ c < 600 => t.result = "fail" /\ t.recommendation = "human_review"

C21_Witness ==
    /\ pc = "ensemble_voter" /\ results[1].confidence = 600
    /\ verifier_report.tests[1].recommendation = "replan_ensemble"

\* number of results of the list carrying label l
Votes(l) == Cardinality({i \in 1..Len(results) : results[i].label = l})

\* the list is pneumonia(0.8), pneumonia(0.75), normal(0.6)
PneumoniaScenario ==
    /\ Len(results) = 3
    /\ results[1].label = "pneumonia" /\ results[1].confidence = 800
    /\ results[2].label = "pneumonia" /\ results[2].confidence = 750
    /\ results[3].label = "normal" /\ results[3].confidence = 600

\* C22: for pneumonia(0.8), pneumonia(0.75), normal(0.6) the ensemble vote
\* computes agreement 2 of 3 and its test passes with recommendation accept.
C22_TwoOfThreePasses ==
    (pc = "aggregate" /\ PneumoniaScenario)
    => /\ verifier_report.disagreement_analysis.max_votes = 2
       /\ verifier_report.disagreement_analysis.total_votes = 3
       /\ verifier_report.tests[2].test_name = "ensemble_voting"
       /\ verifier_report.tests[2].result = "pass"
       /\ verifier_report.tests[2].recommendation = "accept"

\* C23: get_ensemble_result on a non-empty list returns a result whose label
\* has the most votes, whose confidence is the mean (to 1/1000) of the
\* confidences of the results carrying that label and whose agent_id is
\* "ensemble"; for pneumonia(0.8), pneumonia(0.75), normal(0.6) it is
\* pneumonia with confidence 0.775.
C23_EnsembleResult ==
    pc = "verified"
    => LET r == final_response.result
           sum == SumConfidence(results, r.label)
       IN  /\ r.agent_id = "ensemble"
           /\ Votes(r.label) >= 1
           /\ \A i \in 1..Len(results) : Votes(results[i].label) <= Votes(r.label)
           /\ r.confidence * Votes(r.label) <= sum
           /\ sum < (r.confidence + 1) * Votes(r.label)
           /\ PneumoniaScenario => r.label = "pneumonia" /\ r.confidence = 775

C23_Witness ==
    /\ pc = "verified" /\ PneumoniaScenario
    /\ final_response.result.label = "pneumonia"
    /\ final_response.result.confidence = 775

\* C24: for every result list of length >= 2, EnsembleVoter.verify reports
\* agreement_rate = (largest vote count) / (number of results), and its
\* majority label is a label of the list.
C24_AgreementRate ==
    (pc = "aggregate" /\ Len(results) >= 2)
    => LET a == verifier_report.disagreement_analysis
       IN  /\ a.total_votes = Len(results)
           /\ \E i \in 1..Len(results) : Votes(results[i].label) = a.max_votes
           /\ \A i \in 1..Len(results) : Votes(results[i].label) <= a.max_votes
           /\ \E i \in 1..Len(results) : results[i].label = a.majority_label

C24_Witness ==
    /\ pc = "aggregate" /\ Len(results) = 3
    /\ results[1].label = "other" /\ results[2].label = "normal"
    /\ results[3].label = "normal"
    /\ verifier_report.disagreement_analysis.max_votes = 2
    /\ verifier_report.disagreement_analysis.majority_label = "normal"

\* C25: aggregation gives PASS/accept when no performed test failed (a
\* skipped test is not a failure); otherwise FAIL with the first of
\* human_review, replan_ensemble, replan_different_agents that a failed test
\* recommends, and abort when none of them is recommended.
C25_Aggregation ==
    pc = "ensemble_result"
    => LET ts == verifier_report.tests
           recs == {ts[i].recommendation :
                      i \in {j \in 1..Len(ts) : ts[j].result = "fail"}}
           anyFailed == \E i \in 1..Len(ts) : ts[i].result = "fail"
           rec == verifier_report.recommendation
       IN  /\ ~anyFailed => verifier_report.status = "PASS" /\ rec = "accept"
           /\ anyFailed =>
                /\ verifier_report.status = "FAIL"
                /\ "human_review" \in recs => rec = "human_review"
                /\ ("human_review" \notin recs /\ "replan_ensemble" \in recs)
                     => rec = "replan_ensemble"
                /\ ({"human_review", "replan_ensemble"} \cap recs = {}
                    /\ "replan_different_agents" \in recs)
                     => rec = "replan_different_agents"
                /\ ({"human_review", "replan_ensemble",
                     "replan_different_agents"} \cap recs = {})
                     => rec = "abort"

C25_Witness ==
    /\ pc = "ensemble_result" /\ Len(verifier_report.tests) = 3
    /\ verifier_report.tests[1].recommendation = "replan_ensemble"
    /\ verifier_report.tests[2].result = "skip"
    /\ verifier_report.tests[3].recommendation = "human_review"
    /\ verifier_report.status = "FAIL"
    /\ verifier_report.recommendation = "human_review"

\* C26: whenever the verification status of a round is PASS, in the
\* Verifier's report or in the orchestrator's state, the round's result list
\* is non-empty; a round without results is decided FAIL and a request never
\* ends COMPLETED or COMPLETED_WITH_WARNING without results.
C26_PassNeedsResults ==
    /\ (verification_status = "PASS" \/ verifier_report.status = "PASS")
         => results # <<>>
    /\ (pc = "check_status" /\ results = <<>>) => verification_status = "FAIL"
    /\ (pc = "done" /\ results = <<>>)
         => final_response.status \notin {"COMPLETED", "COMPLETED_WITH_WARNING"}

C26_Witness ==
    /\ pc = "check_status" /\ results = <<>> /\ rounds = 2
    /\ verification_status = "FAIL" /\ error = "ALL_AGENTS_FAILED"

InCatalog(id) == \E j \in 1..Len(catalog) : catalog[j] = id

\* C27: after semantic selection the candidate list is the list of returned
\* ids that are in the catalog, in the ranker's order (ids not in the catalog
\* dropped); when no returned id is in the catalog it is the entire catalog.
C27_SemanticSelection ==
    (pc = "discover_agents" /\ intent = "llm_selected")
    => LET valid == SelectSeq(ranked, InCatalog)
       IN  /\ valid # <<>> => discovered_agents = valid
           /\ valid = <<>> => discovered_agents = catalog

C27_Witness ==
    /\ pc = "discover_agents" /\ intent = "llm_selected"
    /\ catalog = <<"a1", "a2", "a3">> /\ ranked = <<"a2", "zz", "a1">>
    /\ discovered_agents = <<"a2", "a1">>

\* the domain and the query tags the keyword table gives each prompt
ExpectedDomain(prompt) == IF prompt = "xray of a chest" THEN "medical" ELSE "general"
ExpectedTags(prompt) ==
    IF prompt = "xray of a chest" THEN {"medical", "xray", "diagnosis"}
    ELSE {"general", "objects", "scenes"}

\* C28: when the semantic ranker is unavailable or raises, selection does
\* not raise; the domain is the keyword match of the prompt (general when no
\* keyword matches) and, when the tag query returns, the candidates are
\* exactly the catalog agents sharing a tag with the domain's tags, each once,
\* by descending score: a function of the prompt and the catalog.  When the
\* query fails there is no candidate.
C28_FallbackSelection ==
    (pc = "route_decision" /\ catalog # <<>> /\ intent # "llm_selected")
    => LET tags == ExpectedTags(request.prompt)
           d == discovered_agents
       IN  /\ ~raised
           /\ intent = ExpectedDomain(request.prompt)
           /\ \/ d = <<>> /\ error \in {"", "discovery failed"}
              \/ /\ \A a \in {catalog[j] : j \in 1..Len(catalog)} :
                       (AgentTags(a) \cap tags # {})
                       <=> (\E i \in 1..Len(d) : d[i] = a)
                 /\ \A i \in 1..Len(d) : InCatalog(d[i])
                 /\ \A i, j \in 1..Len(d) :
                       i < j => /\ d[i] # d[j]
                                /\ QueryScore(d[i], tags) >= QueryScore(d[j], tags)
                 /\ (d = <<>>) <=> (error = "NO_AGENTS_AVAILABLE")

\* C29: whenever a dispatch round starts, the round's RouteDecision has a
\* non-empty selected_agents list, all of them candidates of the request; a
\* request without candidate agents never reaches dispatch.
C29_DispatchHasAgents ==
    pc = "execute_tasks"
    => /\ Len(route_decision.selected_agents) >= 1
       /\ discovered_agents # <<>>
       /\ \A i \in 1..Len(route_decision.selected_agents) :
            \E j \in 1..Len(discovered_agents) :
                route_decision.selected_agents[i].agent_id = discovered_agents[j]

C29_Witness ==
    /\ pc = "execute_tasks" /\ iteration = 2
    /\ Len(discovered_agents) = 1 /\ Len(route_decision.selected_agents) = 1

\* C30: every result collected for a request, and the result in its final
\* response, carries the request's own request_id.
C30_RequestIdStable ==
    /\ \A i \in 1..Len(results) : results[i].request_id = request.request_id
    /\ (pc = "done" /\ final_response.result # NoResult)
         => final_response.result.request_id = request.request_id

\* the stage a node of the graph belongs to
Stage(node) ==
    CASE node \in {"supervisor", "discover_agents"} -> "select"
      [] node \in {"route_decision", "route_simple", "route_ensemble"} -> "route"
      [] node = "execute_tasks" -> "dispatch"
      [] node = "reflection" -> "verify"
      [] node = "check_status" -> "decide"
      [] OTHER -> "end"

\* the stage that follows each stage; decide loops back to select
StageOrder ==
    {<<"select", "route">>, <<"route", "dispatch">>, <<"dispatch", "verify">>,
     <<"verify", "decide">>, <<"decide", "select">>}

\* C31: the stages of a request run in the order select, route, dispatch,
\* verify, decide; a round's selection starts only from the decision of the
\* round before, whose dispatch was verified; the dispatch of a round runs on
\* a RouteDecision built in that round from that round's candidates; and the
\* results handed to verification are exactly the ones parsed from the calls
\* of that round.
C31_StagesInOrder ==
    [][ /\ Stage(pc') # Stage(pc)
           => \/ <<Stage(pc), Stage(pc')>> \in StageOrder
              \/ Stage(pc') = "end"
        /\ (pc' = "supervisor")
           => /\ pc = "check_status" /\ decision' = "replan"
              /\ round_iteration = iteration /\ iteration' = iteration + 1
              /\ verification_status = "FAIL"
        /\ (pc' = "execute_tasks" /\ pc # "execute_tasks")
           => /\ Len(route_decision'.selected_agents) \in 1..Len(discovered_agents)
              /\ \A i \in 1..Len(route_decision'.selected_agents) :
                   route_decision'.selected_agents[i].agent_id = discovered_agents[i]
        /\ (pc = "reflection" /\ pc' = "check_status")
           => /\ round_iteration = iteration
              /\ Len(results) = Cardinality(SuccessIdx)
              /\ \A i \in SuccessIdx :
                   results[Cardinality({j \in SuccessIdx : j <= i})] = ParsedCall(i)
              /\ verifier_report' # NoReport
                 => verifier_report'.tests[1] = ConfidenceGate_verify(results[1])
      ]_vars

C31_Witness ==
    /\ pc = "check_status" /\ iteration = 2 /\ rounds = 2
    /\ route_decision.strategy = "parallel_ensemble"
    /\ Len(results) = 2 /\ verifier_report # NoReport

\* C32: whenever the verifier reports on a round with two or more results,
\* its report lists the ensemble vote's test right after the confidence
\* gate's; on a round with one result it lists no ensemble vote.
C32_EnsembleVoteRuns ==
    (pc = "check_status" /\ verifier_report # NoReport)
    => LET tests == verifier_report.tests
       IN  /\ tests[1].test_name = "confidence_threshold"
           /\ Len(results) >= 2
              => /\ Len(tests) >= 2
                 /\ tests[2].test_name = "ensemble_voting"
           /\ Len(results) = 1
              => \A i \in 1..Len(tests) : tests[i].test_name # "ensemble_voting"

\* the labels of the list with the highest vote count
TopLabels == {l \in {results[i].label : i \in 1..Len(results)} :
                \A i \in 1..Len(results) : Votes(results[i].label) <= Votes(l)}

\* C33: when labels tie for the highest vote count, the majority label of
\* the ensemble vote's analysis and the label of the ensemble result are both
\* the tied label whose first occurrence in the result list comes first.
C33_TieFirstSeen ==
    (pc = "verified" /\ Len(results) >= 2)
    => \E i \in 1..Len(results) :
          /\ results[i].label \in TopLabels
          /\ \A j \in 1..(i - 1) : results[j].label \notin TopLabels
          /\ verifier_report.disagreement_analysis.majority_label = results[i].label
          /\ final_response.result.label = results[i].label

C33_Witness ==
    /\ pc = "verified" /\ Len(results) = 3
    /\ results[1].label = "other" /\ results[2].label = "pneumonia"
    /\ results[3].label = "normal"
    /\ verifier_report.disagreement_analysis.majority_label = "other"
    /\ final_response.result.label = "other"

\* C34: the iterations value of a final response built by the graph for a
\* request that was dispatched equals the number of dispatch rounds executed
\* for it.
C34_IterationsCountRounds ==
    (pc = "done" /\ ~raised /\ rounds >= 1)
    => final_response.iterations = rounds

\* C35: when the verifier reported on the last round's results, a final
\* status of COMPLETED (no mismatch warning), reached by the rule-based
\* reflection, is returned only if that report had status PASS.
C35_CompletedNeedsVerifierPass ==
    (pc = "done" /\ ~llm /\ final_response.status = "COMPLETED"
     /\ verifier_report # NoReport)
    => verifier_report.status = "PASS"

\* C36: the result returned with final status COMPLETED, reached by the
\* rule-based reflection, has confidence at least the request's
\* constraints.min_confidence.
C36_CompletedMeetsMinConfidence ==
    (pc = "done" /\ ~llm /\ final_response.status = "COMPLETED")
    => final_response.result.confidence >= request.min_confidence

\* C37: within the RouteDecision a dispatch round runs on, no agent_id
\* appears twice.
C37_RouteAgentsDistinct ==
    pc = "execute_tasks"
    => \A i, j \in 1..Len(route_decision.selected_agents) :
          i # j => route_decision.selected_agents[i].agent_id
                   # route_decision.selected_agents[j].agent_id

\* C38: every result collected in a dispatch round, in either strategy and
\* for either response shape, carries the agent_id of the selected agent
\* whose call produced it.
C38_ResultCarriesCalledAgent ==
    (pc = "reflection" /\ calls # <<>> /\ Len(results) = Cardinality(SuccessIdx))
    => \A i \in SuccessIdx :
          /\ calls[i].agent_id = route_decision.selected_agents[i].agent_id
          /\ results[Cardinality({j \in SuccessIdx : j <= i})].agent_id
             = calls[i].agent_id

\* C39: once the task stored by the gateway has reached one of the five
\* terminal statuses, a result stream open on it ends.
C39_StreamEnds ==
    (task_results.status \in FinalStatuses /\ stream = "open")
    ~> (stream = "closed")

====
